---- MODULE Spec2Model ----
(***************************************************************************)
(* Model of the Klotski state-space generator                              *)
(* (scripts/compute_klotski.py) and of the node index table of the packer  *)
(* (scripts/pack_graph.py).                                                *)
(*                                                                         *)
(* A piece is a record [id, x, y, width, height]; a KlotskiState is a      *)
(* record [pieces, board_width, board_height] with pieces a sequence in    *)
(* list order.  Python dicts keep insertion order, so a dict is a sequence *)
(* of [key, value] entries.  The md5 digest of to_hash is modelled as an   *)
(* injective tag over the string it digests.                               *)
(***************************************************************************)
EXTENDS Integers, Sequences, FiniteSets, TLC

VARIABLES
    initial_state,   \* KlotskiSolver.initial_state
    visited_states,  \* KlotskiSolver.visited_states (dict, insertion order)
    edges,           \* KlotskiSolver.edges (list)
    queue,           \* compute_state_space: deque of states
    queued_states,   \* compute_state_space: set of hashes in the deque
    state_count,     \* compute_state_space: number of pops so far
    current_state,   \* state popped in the running iteration
    current_hash,    \* its hash
    moves,           \* list returned by get_possible_moves for it
    move_idx,        \* number of entries of moves already processed
    pc,              \* "loop" | "moves" | "done" | "KeyError"
    graph,           \* value returned by compute_state_space
    popped,          \* history: hashes in the order they were popped
    prev,            \* result of the previous invocation, or NoRun
    packed,          \* pack_graph: raw_data written to the .bin file, or NoRun
    buffer,          \* parsePackedGraph: the ArrayBuffer it is handed
    parsed           \* parsePackedGraph: its result or the error thrown

vars == <<initial_state, visited_states, edges, queue, queued_states,
          state_count, current_state, current_hash, moves, move_idx, pc,
          graph, popped, prev, packed, buffer, parsed>>

----------------------------------------------------------------------------
(* Bounds *)

\* number of initial configurations, taken from the head of ConfigTable
NConfigs == 4

----------------------------------------------------------------------------
(* Piece and KlotskiState *)

Piece(id, x, y, width, height) ==
    [id |-> id, x |-> x, y |-> y, width |-> width, height |-> height]

KlotskiState(pieces, board_width, board_height) ==
    [pieces |-> pieces, board_width |-> board_width,
     board_height |-> board_height]

get_positions(p) ==
    {<<p.x + dx, p.y + dy>> : dx \in 0..(p.width - 1), dy \in 0..(p.height - 1)}

\* lexicographic order of Python tuples (x, y, width, height)
TupleLess(a, b) ==
    \E k \in 1..4 : a[k] < b[k] /\ \A j \in 1..(k - 1) : a[j] = b[j]

\* the list left in list order, never sorted
SortedTuples_unsorted(s) == s

\* sorted() of a list of tuples: the element of rank r goes to position r
SortedTuples(s) ==
    LET rank(i) == 1 + Cardinality({j \in 1..Len(s) :
                        TupleLess(s[j], s[i]) \/ (s[j] = s[i] /\ j < i)})
    IN  [r \in 1..Len(s) |-> s[CHOOSE i \in 1..Len(s) : rank(i) = r]]

to_tuple(state) ==
    SortedTuples([i \in 1..Len(state.pieces) |->
        <<state.pieces[i].x, state.pieces[i].y,
          state.pieces[i].width, state.pieces[i].height>>])

to_hash(state) == <<"md5", to_tuple(state)>>

\* sorted(pieces, key=lambda p: p.id): stable, equal ids keep list order
SortedById(s) ==
    LET rank(i) == 1 + Cardinality({j \in 1..Len(s) :
                        s[j].id < s[i].id \/ (s[j].id = s[i].id /\ j < i)})
    IN  [r \in 1..Len(s) |-> s[CHOOSE i \in 1..Len(s) : rank(i) = r]]

to_position_array(state) ==
    LET sorted_pieces == SortedById(state.pieces)
    IN  [i \in 1..Len(sorted_pieces) |-> <<sorted_pieces[i].x, sorted_pieces[i].y>>]

\* dict position -> piece id; a later piece of the list overwrites
get_occupied_positions(state) ==
    LET n == Len(state.pieces)
        cells == UNION {get_positions(state.pieces[i]) : i \in 1..n}
        last(pos) == CHOOSE i \in 1..n :
                        /\ pos \in get_positions(state.pieces[i])
                        /\ \A j \in (i + 1)..n :
                              pos \notin get_positions(state.pieces[j])
    IN  [pos \in cells |-> state.pieces[last(pos)].id]

\* is_valid_position with >= in the test of the right edge
is_valid_position_right_edge(state, piece_id, new_x, new_y, piece_width, piece_height) ==
    IF new_x < 0 \/ new_y < 0 THEN FALSE
    ELSE IF new_x + piece_width >= state.board_width THEN FALSE
    ELSE IF new_y + piece_height > state.board_height THEN FALSE
    ELSE \A dx \in 0..(piece_width - 1), dy \in 0..(piece_height - 1) :
            LET pos == <<new_x + dx, new_y + dy>>
            IN  ~(/\ pos \in DOMAIN get_occupied_positions(state)
                  /\ get_occupied_positions(state)[pos] # piece_id)

\* is_valid_position without the collision loop
is_valid_position_bounds_only(state, piece_id, new_x, new_y, piece_width, piece_height) ==
    /\ ~(new_x < 0 \/ new_y < 0)
    /\ ~(new_x + piece_width > state.board_width)
    /\ ~(new_y + piece_height > state.board_height)

is_valid_position(state, piece_id, new_x, new_y, piece_width, piece_height) ==
    IF new_x < 0 \/ new_y < 0 THEN FALSE
    ELSE IF new_x + piece_width > state.board_width THEN FALSE
    ELSE IF new_y + piece_height > state.board_height THEN FALSE
    ELSE LET occupied == get_occupied_positions(state)
         IN  \A dx \in 0..(piece_width - 1), dy \in 0..(piece_height - 1) :
                LET pos == <<new_x + dx, new_y + dy>>
                IN  ~(pos \in DOMAIN occupied /\ occupied[pos] # piece_id)

\* the four directions in the order of the packer's direction codes
directions_code_order ==
    << <<0, -1, "up">>, <<0, 1, "down">>, <<-1, 0, "left">>, <<1, 0, "right">> >>

directions ==
    << <<-1, 0, "left">>, <<1, 0, "right">>, <<0, -1, "up">>, <<0, 1, "down">> >>

\* the pieces the outer loop of get_possible_moves visits
\* (loop skipping the first piece of the list)
MovablePieces_skip_first(state) == 2..Len(state.pieces)

MovablePieces(state) == 1..Len(state.pieces)

\* the moved piece built with width and height exchanged
MovedPiece_transposed(p, new_x, new_y) ==
    Piece(p.id, new_x, new_y, p.height, p.width)

\* the moved piece built from the old coordinates
MovedPiece_unmoved(p, new_x, new_y) ==
    Piece(p.id, p.x, p.y, p.width, p.height)

\* Piece(p.id, new_x, new_y, p.width, p.height)
MovedPiece(p, new_x, new_y) ==
    Piece(p.id, new_x, new_y, p.width, p.height)

\* list of (new_state, piece_id, direction), piece order then direction order
get_possible_moves(state) ==
    LET n == Len(state.pieces)
        attempts == [k \in 1..(4 * n) |-> <<((k - 1) \div 4) + 1, ((k - 1) % 4) + 1>>]
        new_x(a) == state.pieces[a[1]].x + directions[a[2]][1]
        new_y(a) == state.pieces[a[1]].y + directions[a[2]][2]
        ok(a) == /\ a[1] \in MovablePieces(state)
                 /\ is_valid_position(state, state.pieces[a[1]].id,
                                      new_x(a), new_y(a),
                                      state.pieces[a[1]].width,
                                      state.pieces[a[1]].height)
        legal == SelectSeq(attempts, ok)
        new_pieces(a) ==
            [i \in 1..n |->
                IF state.pieces[i].id = state.pieces[a[1]].id
                THEN MovedPiece(state.pieces[i], new_x(a), new_y(a))
                ELSE Piece(state.pieces[i].id, state.pieces[i].x, state.pieces[i].y,
                           state.pieces[i].width, state.pieces[i].height)]
    IN  [j \in 1..Len(legal) |->
            [new_state |-> KlotskiState(new_pieces(legal[j]),
                                        state.board_width, state.board_height),
             piece_id  |-> state.pieces[legal[j][1]].id,
             direction |-> directions[legal[j][2]][3]]]

----------------------------------------------------------------------------
(* Python dict with insertion order *)

DictKeys(d) == {d[i].key : i \in 1..Len(d)}

\* d[k] = v: overwrite in place when the key exists, append otherwise
DictSet(d, k, v) ==
    IF k \in DictKeys(d)
    THEN [i \in 1..Len(d) |-> IF d[i].key = k THEN [key |-> k, value |-> v] ELSE d[i]]
    ELSE Append(d, [key |-> k, value |-> v])

----------------------------------------------------------------------------
(* Initial configurations *)

create_simple_klotski ==
    KlotskiState(<< Piece(0, 0, 0, 2, 2), Piece(1, 2, 0, 1, 2),
                    Piece(2, 0, 2, 1, 1), Piece(3, 1, 2, 1, 1) >>, 3, 3)

\* legal configurations a caller can hand to KlotskiSolver
ConfigTable ==
    << create_simple_klotski,
       KlotskiState(<< Piece(0, 0, 0, 1, 1), Piece(1, 1, 0, 1, 1) >>, 2, 2),
       KlotskiState(<< Piece(0, 0, 0, 1, 2), Piece(1, 1, 0, 1, 1),
                       Piece(2, 1, 1, 1, 1) >>, 3, 2),
       KlotskiState(<< Piece(0, 0, 0, 1, 1), Piece(1, 1, 0, 1, 1),
                       Piece(2, 0, 1, 1, 1) >>, 2, 2),
       KlotskiState(<< Piece(0, 0, 0, 1, 2), Piece(1, 1, 0, 1, 1) >>, 2, 2),
       KlotskiState(<< Piece(0, 0, 0, 1, 1), Piece(1, 1, 0, 1, 1) >>, 3, 1) >>

Configs == {ConfigTable[i] : i \in 1..NConfigs}

\* configurations with a piece of width 0, of height 0, with a negative id
MalformedConfigs ==
    { KlotskiState(<< Piece(0, 0, 0, 0, 1), Piece(1, 1, 0, 1, 1) >>, 2, 2),
      KlotskiState(<< Piece(0, 0, 0, 1, 0) >>, 2, 1),
      KlotskiState(<< Piece(-1, 0, 0, 1, 1), Piece(0, 1, 0, 1, 1) >>, 2, 2) }

\* a Piece constructor that checks its arguments
PieceConstructs_validated(id, x, y, width, height) ==
    width > 0 /\ height > 0 /\ id >= 0

\* the dataclass __init__ of Piece stores the five fields and checks nothing
PieceConstructs(id, x, y, width, height) == TRUE

NoRun == [run |-> "none"]

NoneState == KlotskiState(<<>>, 0, 0)

NoneHash == <<"None">>

\* the same pieces listed in the order perm and carrying the ids relabel[id]
Rearranged(state, perm, relabel) ==
    KlotskiState([i \in 1..Len(state.pieces) |->
                    Piece(relabel[state.pieces[perm[i]].id],
                          state.pieces[perm[i]].x, state.pieces[perm[i]].y,
                          state.pieces[perm[i]].width, state.pieces[perm[i]].height)],
                 state.board_width, state.board_height)

PieceIds(state) == {state.pieces[i].id : i \in 1..Len(state.pieces)}

----------------------------------------------------------------------------
(* KlotskiSolver *)

\* KlotskiSolver(s) followed by the set-up of compute_state_space
SolverStart(s) ==
    /\ initial_state = s
    /\ visited_states = <<>>
    /\ edges = <<>>
    /\ queue = <<s>>
    /\ queued_states = {to_hash(s)}
    /\ state_count = 0
    /\ current_state = NoneState
    /\ current_hash = NoneHash
    /\ moves = <<>>
    /\ move_idx = 0
    /\ pc = "loop"
    /\ graph = NoRun
    /\ popped = <<>>
    /\ packed = NoRun
    /\ buffer = <<>>
    /\ parsed = NoRun

Init ==
    /\ \E s \in Configs : SolverStart(s)
    /\ prev = NoRun

\* the caller builds any pieces, KlotskiState and KlotskiSolver take them
InitUnchecked ==
    /\ prev = NoRun
    /\ \E s \in Configs \cup MalformedConfigs :
          IF \A i \in 1..Len(s.pieces) :
                PieceConstructs(s.pieces[i].id, s.pieces[i].x, s.pieces[i].y,
                                s.pieces[i].width, s.pieces[i].height)
          THEN SolverStart(s)
          ELSE /\ initial_state = s
               /\ visited_states = <<>>
               /\ edges = <<>>
               /\ queue = <<>>
               /\ queued_states = {}
               /\ state_count = 0
               /\ current_state = NoneState
               /\ current_hash = NoneHash
               /\ moves = <<>>
               /\ move_idx = 0
               /\ pc = "InvalidPieceError"
               /\ graph = NoRun
               /\ popped = <<>>
               /\ packed = NoRun
               /\ buffer = <<>>
               /\ parsed = NoRun

\* the enqueue test with the in-flight test inverted: nothing is enqueued
ShouldEnqueue_never(new_hash, visited, queued) ==
    new_hash \notin DictKeys(visited) /\ new_hash \in queued

\* the enqueue test without the in-flight test
ShouldEnqueue_visited_only(new_hash, visited, queued) ==
    new_hash \notin DictKeys(visited)

ShouldEnqueue(new_hash, visited, queued) ==
    new_hash \notin DictKeys(visited) /\ new_hash \notin queued

\* the loop test with a ceiling of three expanded states
LoopContinues_ceiling(q, count) == q # <<>> /\ count < 3

\* while queue: the only loop test, no count enters it
LoopContinues(q, count) == q # <<>>

\* a container popped at an arbitrary position (set.pop instead of popleft)
PopIndex_any(q) == 1..Len(q)

\* deque.popleft takes the leftmost element
PopIndex(q) == {1}

\* the front element read but never removed from the deque
popleft_rest_peek(q, k) == q

\* the deque after the element at position k has been taken out
popleft_rest(q, k) == SubSeq(q, 1, k - 1) \o SubSeq(q, k + 1, Len(q))

\* while queue: popleft, remove from queued_states, count, get_possible_moves
PopState ==
    /\ pc = "loop"
    /\ LoopContinues(queue, state_count)
    /\ \E k \in PopIndex(queue) :
          /\ current_state' = queue[k]
          /\ queue' = popleft_rest(queue, k)
          /\ current_hash' = to_hash(queue[k])
          /\ popped' = Append(popped, to_hash(queue[k]))
          /\ IF to_hash(queue[k]) \in queued_states
             THEN /\ queued_states' = queued_states \ {to_hash(queue[k])}
                  /\ state_count' = state_count + 1
                  /\ moves' = get_possible_moves(queue[k])
                  /\ move_idx' = 0
                  /\ pc' = "moves"
             ELSE \* set.remove of an absent element raises KeyError
                  /\ pc' = "KeyError"
                  /\ UNCHANGED <<queued_states, state_count, moves, move_idx>>
    /\ UNCHANGED <<initial_state, visited_states, edges, graph, prev,
                   packed, buffer, parsed>>

\* one iteration of: for new_state, piece_id, direction in moves
ProcessMove ==
    /\ pc = "moves"
    /\ move_idx < Len(moves)
    /\ LET m == moves[move_idx + 1]
           new_hash == to_hash(m.new_state)
           edge == [source |-> current_hash, target |-> new_hash,
                    piece_id |-> m.piece_id, direction |-> m.direction]
       IN  /\ edges' = Append(edges, edge)
           /\ IF ShouldEnqueue(new_hash, visited_states, queued_states)
              THEN /\ queue' = Append(queue, m.new_state)
                   /\ queued_states' = queued_states \cup {new_hash}
              ELSE UNCHANGED <<queue, queued_states>>
    /\ move_idx' = move_idx + 1
    /\ UNCHANGED <<initial_state, visited_states, state_count, current_state,
                   current_hash, moves, pc, graph, popped, prev,
                   packed, buffer, parsed>>

\* after the for loop: self.visited_states[current_hash] = current_state
MarkVisited ==
    /\ pc = "moves"
    /\ move_idx = Len(moves)
    /\ visited_states' = DictSet(visited_states, current_hash, current_state)
    /\ pc' = "loop"
    /\ UNCHANGED <<initial_state, edges, queue, queued_states, state_count,
                   current_state, current_hash, moves, move_idx, graph, popped,
                   prev, packed, buffer, parsed>>

create_graph_json(init, visited, edge_list) ==
    LET sorted_pieces == SortedById(init.pieces)
        piece_definitions ==
            [i \in 1..Len(sorted_pieces) |->
                [id |-> sorted_pieces[i].id, width |-> sorted_pieces[i].width,
                 height |-> sorted_pieces[i].height]]
        nodes == [i \in 1..Len(visited) |->
                    [id |-> visited[i].key,
                     positions |-> to_position_array(visited[i].value)]]
    IN  [metadata |-> [total_nodes |-> Len(nodes),
                       total_edges |-> Len(edge_list),
                       board_width |-> init.board_width,
                       board_height |-> init.board_height],
         pieces |-> piece_definitions,
         nodes |-> nodes,
         edges |-> edge_list]

\* the while loop ends: return self.create_graph_json()
Finish ==
    /\ pc = "loop"
    /\ ~LoopContinues(queue, state_count)
    /\ graph' = create_graph_json(initial_state, visited_states, edges)
    /\ pc' = "done"
    /\ UNCHANGED <<initial_state, visited_states, edges, queue, queued_states,
                   state_count, current_state, current_hash, moves, move_idx,
                   popped, prev, packed, buffer, parsed>>

\* a second invocation: a new KlotskiSolver on the same geometry, the piece
\* list in any order and the ids assigned in any way
Rerun ==
    /\ pc = "done"
    /\ prev = NoRun
    /\ prev' = [run |-> "done", initial_state |-> initial_state, graph |-> graph]
    /\ \E perm \in Permutations(1..Len(initial_state.pieces)),
          relabel \in Permutations(PieceIds(initial_state)) :
          LET s == Rearranged(initial_state, perm, relabel)
          IN  /\ initial_state' = s
              /\ visited_states' = <<>>
              /\ edges' = <<>>
              /\ queue' = <<s>>
              /\ queued_states' = {to_hash(s)}
              /\ state_count' = 0
              /\ current_state' = NoneState
              /\ current_hash' = NoneHash
              /\ moves' = <<>>
              /\ move_idx' = 0
              /\ pc' = "loop"
              /\ graph' = NoRun
              /\ popped' = <<>>
    /\ UNCHANGED <<packed, buffer, parsed>>

Next == PopState \/ ProcessMove \/ MarkVisited \/ Finish \/ Rerun

Spec == Init /\ [][Next]_vars

UncheckedSpec == InitUnchecked /\ [][Next]_vars

\* the interpreter runs the single thread until it returns or raises
LiveSpec == Spec /\ WF_vars(Next)

----------------------------------------------------------------------------
(* pack_graph: node id -> index table *)

\* dict built by enumerate(nodes): a repeated id keeps its last index
node_id_to_idx(nodes) ==
    [id \in {nodes[i].id : i \in 1..Len(nodes)} |->
        (CHOOSE i \in 1..Len(nodes) :
            /\ nodes[i].id = id
            /\ \A j \in (i + 1)..Len(nodes) : nodes[j].id # id) - 1]

----------------------------------------------------------------------------
(* The graph document and the packed binary format (pack_graph.py).        *)
(* A buffer is a sequence of bytes 0..255; offsets are counted from 0 as   *)
(* in the code.  A float is held in tenths: 15 stands for 1.5.             *)

\* the 32 hex digits of the digest, as digits 0..15: a stand-in for md5
\* that is injective on states of at most 8 pieces with fields in 0..14
hexdigest(h) ==
    [k \in 1..32 |->
        IF ((k - 1) \div 4) + 1 <= Len(h[2])
        THEN h[2][((k - 1) \div 4) + 1][((k - 1) % 4) + 1] % 16
        ELSE 15]

\* the document main() dumps and pack_graph loads: ids are hex strings
graph_document(g) ==
    [metadata |-> g.metadata,
     pieces |-> g.pieces,
     nodes |-> [i \in 1..Len(g.nodes) |->
                  [id |-> hexdigest(g.nodes[i].id),
                   positions |-> g.nodes[i].positions]],
     edges |-> [i \in 1..Len(g.edges) |->
                  [source |-> hexdigest(g.edges[i].source),
                   target |-> hexdigest(g.edges[i].target),
                   piece_id |-> g.edges[i].piece_id,
                   direction |-> g.edges[i].direction]]]

MAGIC == <<75, 76, 71, 82>>

VERSION == 1

\* POSITION_SCALE = 1.0, in tenths
POSITION_SCALE == 10

\* int(round(x)) of a float given in tenths: Python rounds halves to even
RoundHalfEven(tenths) ==
    LET q == tenths \div 10
        r == tenths % 10
    IN  IF r < 5 THEN q
        ELSE IF r > 5 THEN q + 1
        ELSE IF q % 2 = 0 THEN q ELSE q + 1

Min(a, b) == IF a < b THEN a ELSE b

Max(a, b) == IF a > b THEN a ELSE b

quantize_position(value) ==
    LET scaled == (value * POSITION_SCALE) \div 10
    IN  Max(-32768, Min(32767, RoundHalfEven(scaled)))

\* struct.pack little-endian fields
u16le(v) == <<v % 256, (v \div 256) % 256>>

u32le(v) ==
    <<v % 256, (v \div 256) % 256, (v \div 65536) % 256, (v \div 16777216) % 256>>

i16le(v) == u16le(IF v < 0 THEN v + 65536 ELSE v)

\* bytes.fromhex of 32 hex digits
fromhex(hex) == [b \in 1..16 |-> hex[2 * b - 1] * 16 + hex[2 * b]]

\* direction codes in the order of the move generator
direction_code_move_order(d) ==
    IF d = "left" THEN 0 ELSE IF d = "right" THEN 1 ELSE IF d = "up" THEN 2
    ELSE IF d = "down" THEN 3 ELSE 0

\* direction_map.get(direction, 0)
direction_code(d) ==
    IF d = "up" THEN 0 ELSE IF d = "down" THEN 1 ELSE IF d = "left" THEN 2
    ELSE IF d = "right" THEN 3 ELSE 0

\* pos_lookup: the last entry of the positions list with this id
pos_lookup(positions) ==
    [id \in {positions[i].id : i \in 1..Len(positions)} |->
        positions[CHOOSE i \in 1..Len(positions) :
            /\ positions[i].id = id
            /\ \A j \in (i + 1)..Len(positions) : positions[j].id # id]]

IsU8(v) == v \in 0..255

\* raw_data of pack_graph, or the exception that ends it
pack_graph(statespace, positions) ==
    LET metadata == statespace.metadata
        pieces == statespace.pieces
        nodes == statespace.nodes
        edge_list == statespace.edges
        np == Len(pieces)
        nn == Len(nodes)
        ne == Len(edge_list)
        lookup == pos_lookup(positions)
        idx == node_id_to_idx(nodes)
        header == MAGIC \o u16le(VERSION) \o u32le(nn) \o u32le(ne) \o u16le(np)
                    \o <<metadata.board_width, metadata.board_height>>
                    \o u16le(POSITION_SCALE)
        pieces_data ==
            [k \in 1..(2 * np) |->
                IF (k - 1) % 2 = 0 THEN pieces[((k - 1) \div 2) + 1].width
                ELSE pieces[((k - 1) \div 2) + 1].height]
        node_ids_data ==
            [k \in 1..(16 * nn) |->
                fromhex(nodes[((k - 1) \div 16) + 1].id)[((k - 1) % 16) + 1]]
        pos_bytes(node) ==
            [k \in 1..(2 * Len(node.positions)) |->
                node.positions[((k - 1) \div 2) + 1][((k - 1) % 2) + 1]]
        node_positions_data ==
            [k \in 1..(2 * np * nn) |->
                pos_bytes(nodes[((k - 1) \div (2 * np)) + 1])[((k - 1) % (2 * np)) + 1]]
        xyz(node) ==
            IF node.id \in DOMAIN lookup
            THEN i16le(quantize_position(lookup[node.id].x))
                    \o i16le(quantize_position(lookup[node.id].y))
                    \o i16le(quantize_position(lookup[node.id].z))
            ELSE i16le(0) \o i16le(0) \o i16le(0)
        positions_3d_data ==
            [k \in 1..(6 * nn) |-> xyz(nodes[((k - 1) \div 6) + 1])[((k - 1) % 6) + 1]]
        edge_bytes(edge) ==
            u32le(idx[edge.source]) \o u32le(idx[edge.target])
                \o <<edge.piece_id, direction_code(edge.direction)>>
        edges_data ==
            [k \in 1..(10 * ne) |->
                edge_bytes(edge_list[((k - 1) \div 10) + 1])[((k - 1) % 10) + 1]]
    IN  IF ~(/\ IsU8(metadata.board_width) /\ IsU8(metadata.board_height)
             /\ \A i \in 1..np : IsU8(pieces[i].width) /\ IsU8(pieces[i].height)
             /\ \A i \in 1..nn : \A j \in 1..Len(nodes[i].positions) :
                   IsU8(nodes[i].positions[j][1]) /\ IsU8(nodes[i].positions[j][2])
             /\ \A i \in 1..ne : IsU8(edge_list[i].piece_id))
        THEN [error |-> "struct.error"]
        ELSE IF \E i \in 1..ne : edge_list[i].source \notin DOMAIN idx
                                  \/ edge_list[i].target \notin DOMAIN idx
        THEN [error |-> "KeyError"]
        ELSE [raw_data |-> header \o pieces_data \o node_ids_data
                            \o node_positions_data \o positions_3d_data
                            \o edges_data]

\* DataView reads at a 0-based offset, little-endian
getUint8(buf, offset) == buf[offset + 1]

getUint16(buf, offset) == buf[offset + 1] + 256 * buf[offset + 2]

getUint32(buf, offset) ==
    buf[offset + 1] + 256 * buf[offset + 2] + 65536 * buf[offset + 3]
        + 16777216 * buf[offset + 4]

getInt16(buf, offset) ==
    LET u == getUint16(buf, offset)
    IN  IF u >= 32768 THEN u - 65536 ELSE u

\* byte.toString(16).padStart(2, '0') for the 16 bytes of a node id
tohex(buf, offset) ==
    [k \in 1..32 |->
        IF (k - 1) % 2 = 0 THEN buf[offset + ((k - 1) \div 2) + 1] \div 16
        ELSE buf[offset + ((k - 1) \div 2) + 1] % 16]

\* a decoder that also refuses any version but the one the packer writes
VersionAccepted_checked(version) == version = VERSION

\* parsePackedGraph reads the version field and never looks at it
VersionAccepted(version) == TRUE

directionMap == <<"up", "down", "left", "right">>

\* the value returned by parsePackedGraph, or the exception it throws: a
\* DataView read past the end throws RangeError, bytes[i] past the end is
\* undefined and its toString throws TypeError
parsePackedGraph(buf) ==
    IF Len(buf) < 4 THEN [error |-> "RangeError"]
    ELSE IF SubSeq(buf, 1, 4) # MAGIC THEN [error |-> "Invalid magic"]
    ELSE IF Len(buf) < 20 THEN [error |-> "RangeError"]
    ELSE
    LET version == getUint16(buf, 4)
        nodeCount == getUint32(buf, 6)
        edgeCount == getUint32(buf, 10)
        pieceCount == getUint16(buf, 14)
        boardWidth == getUint8(buf, 16)
        boardHeight == getUint8(buf, 17)
        positionScaleRaw == getUint16(buf, 18)
        off_ids == 20 + 2 * pieceCount
        off_pos == off_ids + 16 * nodeCount
        off_xyz == off_pos + 2 * pieceCount * nodeCount
        off_edges == off_xyz + 6 * nodeCount
        off_end == off_edges + 10 * edgeCount
        nodeIds == [i \in 1..nodeCount |-> tohex(buf, off_ids + 16 * (i - 1))]
        \* value / positionScale, in tenths
        unscale(q) == IF positionScaleRaw = 0 THEN "NaNOrInfinity"
                      ELSE (q * 100) \div positionScaleRaw
        nodeAt(i) == IF i \in 1..nodeCount THEN nodeIds[i] ELSE "undefined"
        dirAt(c) == IF c \in 0..3 THEN directionMap[c + 1] ELSE "up"
    IN  IF ~VersionAccepted(version) THEN [error |-> "Unsupported version"]
        ELSE IF Len(buf) < off_ids THEN [error |-> "RangeError"]
        ELSE IF Len(buf) < off_pos THEN [error |-> "TypeError"]
        ELSE IF Len(buf) < off_end THEN [error |-> "RangeError"]
        ELSE
        [metadata |-> [nodeCount |-> nodeCount, edgeCount |-> edgeCount,
                       pieceCount |-> pieceCount, boardWidth |-> boardWidth,
                       boardHeight |-> boardHeight,
                       positionScale |-> positionScaleRaw],
         pieces |-> [i \in 1..pieceCount |->
                       [width |-> getUint8(buf, 20 + 2 * (i - 1)),
                        height |-> getUint8(buf, 21 + 2 * (i - 1))]],
         nodes |-> [i \in 1..nodeCount |->
                      [id |-> nodeIds[i],
                       positions |->
                          [p \in 1..pieceCount |->
                              <<getUint8(buf, off_pos + 2 * pieceCount * (i - 1)
                                                + 2 * (p - 1)),
                                getUint8(buf, off_pos + 2 * pieceCount * (i - 1)
                                                + 2 * (p - 1) + 1)>>],
                       x |-> unscale(getInt16(buf, off_xyz + 6 * (i - 1))),
                       y |-> unscale(getInt16(buf, off_xyz + 6 * (i - 1) + 2)),
                       z |-> unscale(getInt16(buf, off_xyz + 6 * (i - 1) + 4))]],
         edges |-> [i \in 1..edgeCount |->
                      [source |-> nodeAt(getUint32(buf, off_edges + 10 * (i - 1)) + 1),
                       target |-> nodeAt(getUint32(buf, off_edges + 10 * (i - 1) + 4) + 1),
                       piece_id |-> getUint8(buf, off_edges + 10 * (i - 1) + 8),
                       direction |-> dirAt(getUint8(buf, off_edges + 10 * (i - 1) + 9))]]]

\* node position tables handed to pack_graph: none, or one for the first
\* node with a half to round, a negative half and a value to clamp
PositionTables(doc) ==
    { <<>> } \cup
    (IF Len(doc.nodes) = 0 THEN {}
     ELSE { <<[id |-> doc.nodes[1].id, x |-> 15, y |-> -25, z |-> 400000]>> })

\* pack_graph on the document of the finished graph
Pack ==
    /\ pc = "done"
    /\ packed = NoRun
    /\ \E positions \in PositionTables(graph_document(graph)) :
          packed' = pack_graph(graph_document(graph), positions)
    /\ UNCHANGED <<initial_state, visited_states, edges, queue, queued_states,
                   state_count, current_state, current_hash, moves, move_idx,
                   pc, graph, popped, prev, buffer, parsed>>

\* the buffers a loader can be handed: the file as written, the file cut
\* short, with another first byte, with another version
LoadableBuffers(raw) ==
    {raw}
        \cup {SubSeq(raw, 1, k) : k \in 0..(Len(raw) - 1)}
        \cup {[raw EXCEPT ![1] = 88]}
        \cup {[raw EXCEPT ![5] = v] : v \in {0, 2}}

\* parsePackedGraph on a buffer
Parse ==
    /\ packed # NoRun
    /\ "raw_data" \in DOMAIN packed
    /\ parsed = NoRun
    /\ \E buf \in LoadableBuffers(packed.raw_data) :
          /\ buffer' = buf
          /\ parsed' = parsePackedGraph(buf)
    /\ UNCHANGED <<initial_state, visited_states, edges, queue, queued_states,
                   state_count, current_state, current_hash, moves, move_idx,
                   pc, graph, popped, prev, packed>>

PackNext == PopState \/ ProcessMove \/ MarkVisited \/ Finish \/ Pack \/ Parse

PackSpec == Init /\ [][PackNext]_vars

----------------------------------------------------------------------------
(* Reference notions the properties are stated with: legality of a state   *)
(* and reachability by legal single-step moves, defined on the geometry    *)
(* and not through the move generator.                                     *)

BoardCells(s) == (0..(s.board_width - 1)) \X (0..(s.board_height - 1))

LegalState(s) ==
    /\ \A i \in 1..Len(s.pieces) : get_positions(s.pieces[i]) \subseteq BoardCells(s)
    /\ \A i, j \in 1..Len(s.pieces) :
          i # j => get_positions(s.pieces[i]) \cap get_positions(s.pieces[j]) = {}

DirNames == {"left", "right", "up", "down"}

Dx(d) == IF d = "left" THEN -1 ELSE IF d = "right" THEN 1 ELSE 0

Dy(d) == IF d = "up" THEN -1 ELSE IF d = "down" THEN 1 ELSE 0

Translate(s, i, d) ==
    [s EXCEPT !.pieces[i].x = @ + Dx(d), !.pieces[i].y = @ + Dy(d)]

LegalMoves(s) ==
    {m \in {[piece_id |-> s.pieces[i].id, direction |-> d,
             target |-> Translate(s, i, d)] :
                i \in 1..Len(s.pieces), d \in DirNames} :
        LegalState(m.target)}

RECURSIVE ReachClosure(_)
ReachClosure(S) ==
    LET N == S \cup {m.target : m \in UNION {LegalMoves(s) : s \in S}}
    IN  IF N = S THEN S ELSE ReachClosure(N)

Reachable(s) == ReachClosure({s})

NodeIds(g) == {g.nodes[i].id : i \in 1..Len(g.nodes)}

NodeOf(g, id) == g.nodes[CHOOSE i \in 1..Len(g.nodes) : g.nodes[i].id = id]

\* position of a piece id in the id-sorted piece definitions
PieceSlot(g, id) == CHOOSE k \in 1..Len(g.pieces) : g.pieces[k].id = id

HasIdenticalPieces(s) ==
    \E i, j \in 1..Len(s.pieces) :
        /\ i # j
        /\ s.pieces[i].width = s.pieces[j].width
        /\ s.pieces[i].height = s.pieces[j].height

----------------------------------------------------------------------------
(* Properties *)

\* C1: when compute_state_space has returned, the node ids are exactly the
\* fingerprints of the states reachable from the initial state by legal
\* single-step moves, and no id occurs twice among the nodes.
C1_NodesAreTheReachableStates ==
    pc = "done" =>
        /\ NodeIds(graph) = {to_hash(s) : s \in Reachable(initial_state)}
        /\ \A i, j \in 1..Len(graph.nodes) :
              i # j => graph.nodes[i].id # graph.nodes[j].id

C1_Witness ==
    /\ pc = "done"
    /\ Len(graph.nodes) >= 6
    /\ Cardinality(Reachable(initial_state)) > Len(graph.nodes)

\* C2: for every edge of the output, moving the piece piece_id of the
\* source node's recorded positions one unit in the edge's direction gives
\* exactly the target node's recorded positions.
C2_ReplayYieldsTargetPositions ==
    pc = "done" =>
        \A i \in 1..Len(graph.edges) :
            LET e == graph.edges[i]
                src == NodeOf(graph, e.source).positions
                k == PieceSlot(graph, e.piece_id)
                replayed == [src EXCEPT ![k] = <<src[k][1] + Dx(e.direction),
                                                src[k][2] + Dy(e.direction)>>]
            IN  /\ e.source \in NodeIds(graph)
                /\ e.target \in NodeIds(graph)
                /\ replayed = NodeOf(graph, e.target).positions

\* C3: when compute_state_space has returned, every legal (piece,
\* direction) move of every reachable state has exactly one edge with that
\* state's fingerprint as source, and every edge is such a move.
C3_OneEdgePerLegalMove ==
    pc = "done" =>
        /\ \A s \in Reachable(initial_state) : \A m \in LegalMoves(s) :
              Cardinality({i \in 1..Len(edges) :
                              /\ edges[i].source = to_hash(s)
                              /\ edges[i].piece_id = m.piece_id
                              /\ edges[i].direction = m.direction}) = 1
        /\ \A i \in 1..Len(edges) :
              \E s \in Reachable(initial_state) : \E m \in LegalMoves(s) :
                  edges[i] = [source |-> to_hash(s), target |-> to_hash(m.target),
                              piece_id |-> m.piece_id, direction |-> m.direction]

\* C4: no fingerprint is popped twice, the frontier never holds one
\* fingerprint twice, and it never holds a fingerprint that was popped
\* (the one being expanded included).
C4_NoStateExpandedTwice ==
    /\ \A i, j \in 1..Len(popped) : i # j => popped[i] # popped[j]
    /\ \A i, j \in 1..Len(queue) : i # j => to_hash(queue[i]) # to_hash(queue[j])
    /\ \A i \in 1..Len(queue) : \A j \in 1..Len(popped) :
          to_hash(queue[i]) # popped[j]

\* the expanded state is in neither set, all its moves are processed, and
\* one of them led to a state that was visited and one to a state in flight
C4_Witness ==
    /\ pc = "moves"
    /\ move_idx = Len(moves)
    /\ current_hash \notin DictKeys(visited_states)
    /\ current_hash \notin queued_states
    /\ \E i \in 1..Len(moves) :
          to_hash(moves[i].new_state) \in DictKeys(visited_states)
    /\ \E i \in 1..Len(moves) : \E j \in 1..Len(queue) :
          /\ to_hash(moves[i].new_state) = to_hash(queue[j])
          /\ moves[i].new_state # queue[j]

\* C5: in the finished graph the source and the target of every edge are
\* keys of the packer's node index table, with an index below node_count.
C5_NoDanglingEdges ==
    pc = "done" =>
        LET idx == node_id_to_idx(graph.nodes)
        IN  \A i \in 1..Len(graph.edges) :
                /\ graph.edges[i].source \in DOMAIN idx
                /\ graph.edges[i].target \in DOMAIN idx
                /\ idx[graph.edges[i].source] \in 0..(graph.metadata.total_nodes - 1)
                /\ idx[graph.edges[i].target] \in 0..(graph.metadata.total_nodes - 1)

C5_Witness ==
    /\ pc = "done"
    /\ Len(graph.edges) >= 16
    /\ \E i \in 1..Len(graph.edges) :
          node_id_to_idx(graph.nodes)[graph.edges[i].target] = Len(graph.nodes) - 1

\* C6: from a legal initial state, every state generated by
\* get_possible_moves, held in the frontier or stored in the visited table
\* has all pieces inside the board and no cell under two pieces.
C6_OnlyLegalStates ==
    LegalState(initial_state) =>
        /\ \A i \in 1..Len(moves) : LegalState(moves[i].new_state)
        /\ \A i \in 1..Len(queue) : LegalState(queue[i])
        /\ \A i \in 1..Len(visited_states) : LegalState(visited_states[i].value)
        /\ current_state # NoneState => LegalState(current_state)

C6_Witness ==
    /\ LegalState(initial_state)
    /\ pc = "moves"
    /\ Len(moves) >= 3
    /\ Len(queue) >= 1
    /\ Len(visited_states) >= 1

HasMove(id, d) ==
    \E i \in 1..Len(moves) : moves[i].piece_id = id /\ moves[i].direction = d

\* C7 as stated: from the initial state of the 3x3 puzzle the move list has
\* neither (piece 2, right) nor (piece 1, down).
C7_NoRightFor2NoDownFor1 ==
    (pc = "moves" /\ current_state = create_simple_klotski) =>
        ~HasMove(2, "right") /\ ~HasMove(1, "down")

\* C7: from the initial state of the 3x3 puzzle the move list has no
\* (piece 2, right), piece 3 being on cell (1,2); it does have (piece 1,
\* down), which puts piece 1 at (2,1), inside the board, on the free cell.
C7_NoRightFor2ButDownFor1 ==
    (pc = "moves" /\ current_state = create_simple_klotski) =>
        /\ ~HasMove(2, "right")
        /\ \E i \in 1..Len(moves) :
              /\ moves[i].piece_id = 1
              /\ moves[i].direction = "down"
              /\ moves[i].new_state.pieces[2] = Piece(1, 2, 1, 1, 2)

C7_Witness ==
    /\ pc = "moves"
    /\ current_state = create_simple_klotski
    /\ state_count = 1
    /\ Len(moves) = 2

\* C8: the loop always terminates with an empty frontier, and the frontier
\* is empty at the loop test only when every reachable state was expanded.
C8_Terminates ==
    /\ (pc = "loop") ~> (pc = "done" /\ queue = <<>>)
    /\ []((pc = "loop" /\ queue = <<>>) =>
            \A s \in Reachable(initial_state) :
                \E j \in 1..Len(popped) : popped[j] = to_hash(s))

C8_Witness ==
    /\ pc = "done"
    /\ queue = <<>>
    /\ initial_state = create_simple_klotski
    /\ Len(popped) = 4

\* C9: two runs on the same geometry with the ids assigned differently give
\* the same number of nodes and the same number of edges.
C9_CountsIndependentOfIds ==
    (/\ pc = "done"
     /\ prev # NoRun
     /\ to_tuple(prev.initial_state) = to_tuple(initial_state)) =>
        /\ graph.metadata.total_nodes = prev.graph.metadata.total_nodes
        /\ graph.metadata.total_edges = prev.graph.metadata.total_edges

C9_Witness ==
    /\ pc = "done"
    /\ prev # NoRun
    /\ to_tuple(prev.initial_state) = to_tuple(initial_state)
    /\ \E i \in 1..Len(initial_state.pieces) :
          initial_state.pieces[i].id # prev.initial_state.pieces[i].id
    /\ graph.metadata.total_nodes >= 4

\* C10: two runs from the same initial configuration in the same piece
\* order return the same graph: same nodes in the same order with the same
\* positions, same edges in the same order.
C10_SameInputSameGraph ==
    (/\ pc = "done"
     /\ prev # NoRun
     /\ prev.initial_state = initial_state) =>
        /\ graph.nodes = prev.graph.nodes
        /\ graph.edges = prev.graph.edges
        /\ graph = prev.graph

C10_Witness ==
    /\ pc = "done"
    /\ prev # NoRun
    /\ prev.initial_state = initial_state
    /\ Len(graph.nodes) >= 6

\* position of the piece with this id in the piece list of a state
ListIndex(state, id) ==
    CHOOSE k \in 1..Len(state.pieces) : state.pieces[k].id = id

DirRank(d) ==
    IF d = "left" THEN 1 ELSE IF d = "right" THEN 2 ELSE IF d = "up" THEN 3 ELSE 4

\* (piece, direction) a comes before b in piece order then direction order
MoveBefore(state, a, b) ==
    \/ ListIndex(state, a.piece_id) < ListIndex(state, b.piece_id)
    \/ /\ ListIndex(state, a.piece_id) = ListIndex(state, b.piece_id)
       /\ DirRank(a.direction) < DirRank(b.direction)

\* the state that was expanded under this fingerprint
ExpandedState(h) ==
    IF h = current_hash /\ pc = "moves" THEN current_state
    ELSE visited_states[CHOOSE i \in 1..Len(visited_states) :
                            visited_states[i].key = h].value

\* C11: the moves of a state are listed by position of the piece in the
\* piece list, then left, right, up, down; the edges of one expanded state
\* are contiguous in the edge list and in that same order.
C11_MovesAndEdgesInPieceThenDirectionOrder ==
    /\ pc = "moves" =>
          /\ \A i, j \in 1..Len(moves) :
                i < j => MoveBefore(current_state, moves[i], moves[j])
          /\ \A i \in 1..move_idx :
                edges[Len(edges) - move_idx + i] =
                    [source |-> current_hash,
                     target |-> to_hash(moves[i].new_state),
                     piece_id |-> moves[i].piece_id,
                     direction |-> moves[i].direction]
    /\ \A i, j \in 1..Len(edges) :
          (i < j /\ edges[i].source = edges[j].source) =>
              /\ \A k \in i..j : edges[k].source = edges[i].source
              /\ MoveBefore(ExpandedState(edges[i].source), edges[i], edges[j])

\* a state whose moves span several pieces and directions, a later
\* direction of an earlier piece coming before an earlier one of a later piece
C11_Witness ==
    /\ pc = "moves"
    /\ move_idx = Len(moves)
    /\ Len(edges) > Len(moves)
    /\ \E i, j \in 1..Len(moves) :
          /\ i < j
          /\ moves[i].piece_id # moves[j].piece_id
          /\ DirRank(moves[i].direction) > DirRank(moves[j].direction)
    /\ \E i, j \in 1..Len(moves) :
          /\ i < j
          /\ moves[i].piece_id = moves[j].piece_id

\* the geometry of a state as a multiset: tuple -> number of pieces with it
GeometryBag(s) ==
    LET g(i) == <<s.pieces[i].x, s.pieces[i].y, s.pieces[i].width, s.pieces[i].height>>
    IN  [t \in {g(i) : i \in 1..Len(s.pieces)} |->
            Cardinality({i \in 1..Len(s.pieces) : g(i) = t})]

\* the states at hand: frontier, visited table, generated moves, the
\* initial state of this run and of the previous one
KnownStates ==
    {queue[i] : i \in 1..Len(queue)}
        \cup {visited_states[i].value : i \in 1..Len(visited_states)}
        \cup {moves[i].new_state : i \in 1..Len(moves)}
        \cup {initial_state}
        \cup (IF prev = NoRun THEN {} ELSE {prev.initial_state})

\* C12: two states have the same identity key exactly when their multisets
\* of (x, y, width, height) are equal, whatever the list order and the ids.
C12_KeyIsTheGeometryMultiset ==
    \A s, t \in KnownStates :
        (to_tuple(s) = to_tuple(t)) <=> (GeometryBag(s) = GeometryBag(t))

\* a generated state with the key of a queued one and two equal-sized
\* pieces exchanged, next to a state listed in another order with other ids
C12_Witness ==
    /\ \E i \in 1..Len(moves) : \E j \in 1..Len(queue) :
          /\ to_tuple(moves[i].new_state) = to_tuple(queue[j])
          /\ to_position_array(moves[i].new_state) # to_position_array(queue[j])
    /\ prev # NoRun
    /\ \E i \in 1..Len(initial_state.pieces) :
          /\ initial_state.pieces[i].id # prev.initial_state.pieces[i].id
          /\ <<initial_state.pieces[i].width, initial_state.pieces[i].height>>
                # <<prev.initial_state.pieces[i].width,
                    prev.initial_state.pieces[i].height>>
    /\ \E s, t \in KnownStates : to_tuple(s) # to_tuple(t)

Abs(n) == IF n < 0 THEN -n ELSE n

\* t is s with exactly one piece, the one with this id, shifted by one
\* unit along one axis, and nothing else changed
OneUnitMoveOf(s, t, id) ==
    /\ Len(t.pieces) = Len(s.pieces)
    /\ t.board_width = s.board_width
    /\ t.board_height = s.board_height
    /\ \A k \in 1..Len(s.pieces) :
          /\ t.pieces[k].id = s.pieces[k].id
          /\ t.pieces[k].width = s.pieces[k].width
          /\ t.pieces[k].height = s.pieces[k].height
    /\ \E k \in 1..Len(s.pieces) :
          /\ s.pieces[k].id = id
          /\ Abs(t.pieces[k].x - s.pieces[k].x)
                + Abs(t.pieces[k].y - s.pieces[k].y) = 1
          /\ \A j \in 1..Len(s.pieces) :
                j # k => t.pieces[j] = s.pieces[j]

\* C17: every successor in the move list is the expanded state with
\* exactly one piece shifted by one unit along one axis, ids, sizes, list
\* order and board unchanged; the expanded state still has the fingerprint
\* it was popped with, and so has every state stored in the visited table.
C17_SuccessorDiffersByOneUnitMove ==
    /\ pc = "moves" =>
          /\ \A i \in 1..Len(moves) :
                OneUnitMoveOf(current_state, moves[i].new_state, moves[i].piece_id)
          /\ to_hash(current_state) = current_hash
          /\ current_hash = popped[Len(popped)]
    /\ \A i \in 1..Len(visited_states) :
          to_hash(visited_states[i].value) = visited_states[i].key

C17_Witness ==
    /\ pc = "moves"
    /\ move_idx = Len(moves)
    /\ Len(moves) >= 2
    /\ Len(visited_states) >= 2
    /\ \E i \in 1..Len(moves) :
          \E k \in 1..Len(current_state.pieces) :
              /\ current_state.pieces[k].width # current_state.pieces[k].height
              /\ current_state.pieces[k].id = moves[i].piece_id

\* C18: at the loop test the in-flight set is exactly the set of
\* fingerprints of the frontier, the frontier holds no fingerprint twice,
\* no fingerprint is both in flight and visited, and the removal of a
\* popped fingerprint from the in-flight set never failed.
C18_InFlightSetMirrorsFrontier ==
    /\ pc = "loop" =>
          /\ queued_states = {to_hash(queue[i]) : i \in 1..Len(queue)}
          /\ \A i, j \in 1..Len(queue) :
                i # j => to_hash(queue[i]) # to_hash(queue[j])
          /\ queued_states \cap DictKeys(visited_states) = {}
    /\ pc # "KeyError"

C18_Witness ==
    /\ pc = "loop"
    /\ Len(queue) >= 2
    /\ Len(visited_states) >= 2
    /\ Len(edges) > Len(queue) + Len(visited_states)

\* C19: no edge has its source fingerprint equal to its target fingerprint.
C19_NoSelfLoop ==
    \A i \in 1..Len(edges) : edges[i].source # edges[i].target

C19_Witness ==
    /\ pc = "done"
    /\ Len(edges) >= 16
    /\ \E i, j \in 1..Len(edges) :
          /\ edges[i].source = edges[j].target
          /\ edges[i].target = edges[j].source

Opposite(d) ==
    IF d = "left" THEN "right" ELSE IF d = "right" THEN "left"
    ELSE IF d = "up" THEN "down" ELSE "up"

\* C20: in the finished edge list every edge from s to t with direction d
\* has an edge from t to s with the opposite direction.
C20_EdgesSymmetric ==
    pc = "done" =>
        \A i \in 1..Len(graph.edges) :
            \E j \in 1..Len(graph.edges) :
                /\ graph.edges[j].source = graph.edges[i].target
                /\ graph.edges[j].target = graph.edges[i].source
                /\ graph.edges[j].direction = Opposite(graph.edges[i].direction)

\* a finished graph with an edge whose reverse edge moves another piece id
C20_Witness ==
    /\ pc = "done"
    /\ Len(graph.edges) >= 16
    /\ \E i \in 1..Len(graph.edges) :
          \A j \in 1..Len(graph.edges) :
              (/\ graph.edges[j].source = graph.edges[i].target
               /\ graph.edges[j].target = graph.edges[i].source) =>
                  graph.edges[j].piece_id # graph.edges[i].piece_id

\* states found so far: expanded or waiting in the frontier
Discovered == Len(popped) + Len(queue)

\* C15 as stated, for a ceiling of 1, 2 or 3 states: once more states than
\* the ceiling are discovered the run is aborted, nothing more is expanded
\* and no graph is returned.
C15_AbortsAboveCeiling ==
    \A ceiling \in 1..3 :
        Discovered > ceiling =>
            /\ pc = "ExplorationLimitExceeded"
            /\ graph = NoRun

\* C15: no count stops the exploration: it is always in the loop or has
\* returned, and the graph it returns holds every reachable fingerprint,
\* one node per expanded state, and every recorded edge.
C15_NoCeilingFullGraph ==
    /\ pc \in {"loop", "moves", "done"}
    /\ pc = "done" =>
          /\ graph # NoRun
          /\ graph.metadata.total_nodes = state_count
          /\ graph.metadata.total_nodes =
                Cardinality({to_hash(s) : s \in Reachable(initial_state)})
          /\ graph.metadata.total_edges = Len(edges)

C15_Witness ==
    /\ pc = "done"
    /\ graph.metadata.total_nodes >= 7
    /\ Discovered > 3

Malformed(s) ==
    \E i \in 1..Len(s.pieces) :
        s.pieces[i].width <= 0 \/ s.pieces[i].height <= 0 \/ s.pieces[i].id < 0

\* C16 as stated: with a piece of width <= 0, height <= 0 or negative id
\* the construction fails and no state is ever expanded.
C16_MalformedPieceRejected ==
    Malformed(initial_state) =>
        /\ pc = "InvalidPieceError"
        /\ popped = <<>>

\* C16: no construction fails; with a piece of width <= 0, height <= 0 or
\* negative id the search starts all the same, the initial state is the
\* first state expanded and it is a node of the returned graph.
C16_MalformedPieceAccepted ==
    /\ pc # "InvalidPieceError"
    /\ Malformed(initial_state) =>
          /\ Len(popped) >= 1 => popped[1] = to_hash(initial_state)
          /\ pc = "done" =>
                /\ Len(popped) >= 1
                /\ graph.nodes[1].id = to_hash(initial_state)
                /\ graph.nodes[1].positions = to_position_array(initial_state)

C16_Witness ==
    /\ pc = "done"
    /\ Malformed(initial_state)
    /\ Len(graph.nodes) >= 4
    /\ \E i \in 1..Len(initial_state.pieces) : initial_state.pieces[i].id < 0

IsGraph(r) == "nodes" \in DOMAIN r

\* C13: decoding the bytes the encoder wrote gives back the node ids in
\* order, the (width, height) of every piece, the board dimensions, the
\* positions of every node and every edge with its source id, target id,
\* piece_id and direction.
C13_DecodeOfEncodeIsTheGraph ==
    (parsed # NoRun /\ buffer = packed.raw_data) =>
        LET doc == graph_document(graph)
        IN  /\ IsGraph(parsed)
            /\ [i \in 1..Len(parsed.nodes) |-> parsed.nodes[i].id]
                  = [i \in 1..Len(doc.nodes) |-> doc.nodes[i].id]
            /\ parsed.pieces
                  = [i \in 1..Len(doc.pieces) |->
                        [width |-> doc.pieces[i].width,
                         height |-> doc.pieces[i].height]]
            /\ parsed.metadata.boardWidth = doc.metadata.board_width
            /\ parsed.metadata.boardHeight = doc.metadata.board_height
            /\ [i \in 1..Len(parsed.nodes) |-> parsed.nodes[i].positions]
                  = [i \in 1..Len(doc.nodes) |-> doc.nodes[i].positions]
            /\ parsed.edges = doc.edges

C13_Witness ==
    /\ parsed # NoRun
    /\ buffer = packed.raw_data
    /\ Len(graph.nodes) >= 6
    /\ \E i \in 1..Len(graph.edges) : graph.edges[i].direction = "left"
    /\ \E i \in 1..Len(graph.edges) : graph.edges[i].direction = "down"

Truncated(buf, raw) == Len(buf) < Len(raw)

\* C14: the decoder returns no graph and throws when the magic is wrong,
\* when the version is not the supported one, or when the buffer is
\* shorter than its counts require.
C14_DecoderRejectsBadInput ==
    (/\ parsed # NoRun
     /\ \/ Len(buffer) < 4
        \/ SubSeq(buffer, 1, 4) # MAGIC
        \/ Len(buffer) < 6
        \/ getUint16(buffer, 4) # VERSION
        \/ Truncated(buffer, packed.raw_data)) =>
        ~IsGraph(parsed) /\ "error" \in DOMAIN parsed

\* C21: no two edges share the same (source, target) pair, and the moves
\* generated from one state lead to pairwise different fingerprints.
C21_NoTwoEdgesShareSourceAndTarget ==
    /\ \A i, j \in 1..Len(edges) :
          i # j => <<edges[i].source, edges[i].target>> #
                   <<edges[j].source, edges[j].target>>
    /\ pc = "moves" =>
          \A a, b \in 1..Len(moves) :
              a # b => to_hash(moves[a].new_state) # to_hash(moves[b].new_state)

\* a finished run on a board with two pieces of the same size, where one
\* source has edges of two different pieces and one piece leaves a source
\* in two directions
C21_Witness ==
    /\ pc = "done"
    /\ HasIdenticalPieces(initial_state)
    /\ Len(edges) >= 16
    /\ \E i, j \in 1..Len(edges) :
          /\ edges[i].source = edges[j].source
          /\ edges[i].piece_id # edges[j].piece_id
    /\ \E i, j \in 1..Len(edges) :
          /\ edges[i].source = edges[j].source
          /\ edges[i].piece_id = edges[j].piece_id
          /\ edges[i].direction # edges[j].direction

\* the least number of legal unit moves after which some state with
\* fingerprint h is reached from a state of frontier, counted from k;
\* -1 when no reachable state has that fingerprint
RECURSIVE MovesUntil(_, _, _, _)
MovesUntil(h, frontier, seen, k) ==
    IF \E s \in frontier : to_hash(s) = h THEN k
    ELSE IF frontier = {} THEN -1
    ELSE LET nxt == {m.target : m \in UNION {LegalMoves(s) : s \in frontier}}
                        \ seen
         IN  MovesUntil(h, nxt, seen \cup nxt, k + 1)

MinMoves(init, h) == MovesUntil(h, {init}, {init}, 0)

\* minimum number of moves of every output node, in output order
NodeDepths(g, init) ==
    [i \in 1..Len(g.nodes) |-> MinMoves(init, g.nodes[i].id)]

\* C22: the first output node is the initial state, and an output node
\* never needs more moves from the initial state than a node after it.
C22_NodesInBreadthFirstOrder ==
    pc = "done" =>
        LET d == NodeDepths(graph, initial_state)
        IN  /\ Len(graph.nodes) >= 1
            /\ graph.nodes[1].id = to_hash(initial_state)
            /\ graph.nodes[1].positions = to_position_array(initial_state)
            /\ \A i \in 1..Len(graph.nodes) : d[i] >= 0
            /\ \A i, j \in 1..Len(graph.nodes) : i < j => d[i] <= d[j]

\* a finished graph at least three moves deep with several nodes at one
\* depth
C22_Witness ==
    /\ pc = "done"
    /\ Len(graph.nodes) >= 6
    /\ LET d == NodeDepths(graph, initial_state)
       IN  /\ \E i \in 1..Len(graph.nodes) : d[i] >= 3
           /\ \E i, j \in 1..Len(graph.nodes) : i # j /\ d[i] = d[j] /\ d[i] >= 1

====
